---- MODULE Spec2Model ----
(***************************************************************************)
(* A model of cmd/sorg-build/main.go: the build pipeline of main and its   *)
(* six stages, the frontmatter splitter, the locals merge and the asset    *)
(* linker.  Texts are sequences of one-character strings.                  *)
(***************************************************************************)
EXTENDS Integers, Sequences, FiniteSets, TLC

\* ------------------------------------------------------------------ bounds

\* The longest input text of splitFrontmatter, counted in tokens of Tokens.
MaxTokens == 6

\* ------------------------------------------------------------------- texts

NL == "\n"

\* The pieces input texts are built from: the rule marker, a line break, a
\* blank, a letter and a single dash (so that "----" and "---a" occur).
Tokens == { <<"-", "-", "-">>, <<NL>>, <<" ">>, <<"a">>, <<"-">> }

RECURSIVE Texts(_)
Texts(n) ==
  IF n = 0 THEN { <<>> }
  ELSE LET prev == Texts(n - 1)
       IN  prev \cup { t \o tok : t \in prev, tok \in Tokens }

\* unicode.IsSpace on the characters a text can hold.
IsSpace(c) == c \in { " ", NL, "\t", "\r" }

RECURSIVE TrimLeft(_)
TrimLeft(s) ==
  IF s # <<>> /\ IsSpace(Head(s)) THEN TrimLeft(Tail(s)) ELSE s

RECURSIVE TrimRight(_)
TrimRight(s) ==
  IF s # <<>> /\ IsSpace(s[Len(s)]) THEN TrimRight(SubSeq(s, 1, Len(s) - 1)) ELSE s

TrimSpace_LeftOnly(s) == TrimLeft(s)

\* strings.TrimSpace
TrimSpace(s) == TrimRight(TrimLeft(s))

\* The regular expression (?m)^--- matches at the 0-based offset i when i is
\* the start of the text or follows a line break and three dashes follow.
MatchesAt(s, i) ==
  /\ i + 3 <= Len(s)
  /\ (i = 0 \/ s[i] = NL)
  /\ s[i + 1] = "-" /\ s[i + 2] = "-" /\ s[i + 3] = "-"

\* regexp.FindAllStringIndex(s, n): the leftmost non-overlapping matches, as
\* <<start, end>> offsets, at most n of them when n >= 0.
RECURSIVE FindFrom(_, _, _)
FindFrom(s, pos, n) ==
  IF n = 0 \/ pos + 3 > Len(s) THEN <<>>
  ELSE IF MatchesAt(s, pos)
       THEN << <<pos, pos + 3>> >> \o FindFrom(s, pos + 3, IF n > 0 THEN n - 1 ELSE n)
       ELSE FindFrom(s, pos + 1, n)

FindAllStringIndex(s, n) == FindFrom(s, 0, n)

\* The loop of regexp.Split over the matches.
RECURSIVE SplitLoop(_, _, _, _, _, _)
SplitLoop(s, n, matches, strs, beg, end) ==
  IF matches = <<>> \/ (n > 0 /\ Len(strs) = n - 1)
  THEN IF end # Len(s) THEN Append(strs, SubSeq(s, beg + 1, Len(s))) ELSE strs
  ELSE LET m == Head(matches)
       IN  SplitLoop(s, n, Tail(matches),
                     IF m[2] # 0 THEN Append(strs, SubSeq(s, beg + 1, m[1])) ELSE strs,
                     m[2], m[1])

\* The same loop without the limit on the number of substrings.
Split_NoLimit(s, n) ==
  IF n = 0 THEN <<>>
  ELSE IF Len(s) = 0 THEN << <<>> >>
  ELSE SplitLoop(s, -1, FindAllStringIndex(s, -1), <<>>, 0, 0)

\* regexp.Split(s, n)
Split(s, n) ==
  IF n = 0 THEN <<>>
  ELSE IF Len(s) = 0 THEN << <<>> >>
  ELSE SplitLoop(s, n, FindAllStringIndex(s, n), <<>>, 0, 0)

\* ------------------------------------------------------- splitFrontmatter

SplitResult(frontmatter, content, err) ==
  [frontmatter |-> frontmatter, content |-> content, err |-> err]

\* A splitter that rejects leading text only when it holds a non-blank.
splitFrontmatter_TrimmedLead(content) ==
  LET parts == Split(content, 3)
  IN  IF Len(parts) > 1 /\ TrimSpace(parts[1]) # <<>>
      THEN SplitResult(<<>>, <<>>, "errBadFrontmatter")
      ELSE IF Len(parts) = 2
      THEN SplitResult(<<>>, TrimSpace(parts[2]), "nil")
      ELSE IF Len(parts) = 3
      THEN SplitResult(TrimSpace(parts[2]), TrimSpace(parts[3]), "nil")
      ELSE SplitResult(<<>>, TrimSpace(parts[1]), "nil")

splitFrontmatter(content) ==
  LET parts == Split(content, 3)
  IN  IF Len(parts) > 1 /\ parts[1] # <<>>
      THEN SplitResult(<<>>, <<>>, "errBadFrontmatter")
      ELSE IF Len(parts) = 2
      THEN SplitResult(<<>>, TrimSpace(parts[2]), "nil")
      ELSE IF Len(parts) = 3
      THEN SplitResult(TrimSpace(parts[2]), TrimSpace(parts[3]), "nil")
      ELSE SplitResult(<<>>, TrimSpace(parts[1]), "nil")

\* ------------------------------------------------------------------ bounds

\* The most source files a content directory listing holds.
MaxFiles == 2

\* The most rows a result-set cursor yields.
MaxRows == 2

\* The number of entry names the image directory may hold.
MaxImages == 2

\* ------------------------------------------------------------------ state

VARIABLES
  pc,         \* the statement main is at
  exitCode,   \* the process exit status, -1 while the process runs
  started,    \* the stages main has called, in call order
  completed,  \* the stages that returned nil, in return order
  conf,       \* var conf Conf
  step,       \* the statement the called stage function is at
  err,        \* the error the stage function returns
  infos,      \* the directory listing the stage ranges over
  idx,        \* the position of the range loop, from 1
  input,      \* the text handed to splitFrontmatter
  splitOut,   \* what splitFrontmatter returned for it
  record,     \* var article Article / var fragment Fragment
  locals,     \* the locals mapping handed to renderView
  rv,         \* the statement renderView is at
  rvErr,      \* the error renderView returns
  target,     \* the files of the target tree: path -> content state
  creates,    \* the <<stage, idx>> iterations that called os.Create
  handles,    \* the open handles: files, database, cursors
  defers,     \* the deferred closes of the running stage function
  dbOps,      \* the database operations performed so far
  runsData,   \* compileRuns' runs and chart slices
  bundle,     \* the chunks written to app.css
  images,     \* the source image directory: the names it holds
  assets,     \* the destination image directory: name -> entry
  linkRuns,   \* how many times linkImageAssets was called
  firstRun,   \* the outcome of the first call of linkImageAssets
  glTitle,    \* getLocals' title argument
  glLocals    \* getLocals' locals argument

mainVars == <<pc, exitCode, started, completed, conf>>
frameVars == <<step, err, infos, idx>>
docVars == <<input, splitOut, record>>
viewVars == <<locals, rv, rvErr, target, creates>>
resVars == <<handles, defers>>
runVars == <<dbOps, runsData>>
linkVars == <<images, assets, linkRuns, firstRun>>
glVars == <<glTitle, glLocals>>

vars == <<pc, exitCode, started, completed, conf, step, err, infos, idx,
          input, splitOut, record, locals, rv, rvErr, target, creates,
          handles, defers, dbOps, runsData, bundle, images, assets, linkRuns,
          firstRun, glTitle, glLocals>>

\* ---------------------------------------------------------- configuration

\* The zero value of Conf.
ZeroConf == [BlackSwanDatabaseURL |-> "", GoogleAnalyticsID |-> "", Verbose |-> FALSE]

\* What envdecode.Decode can fill conf with.
Confs ==
  [BlackSwanDatabaseURL : {"", "postgres://blackswan"},
   GoogleAnalyticsID : {"", "UA-1"},
   Verbose : BOOLEAN]

\* sorg.Release
Release == "sorg.Release"

\* ------------------------------------------------------------ main's order

Stages ==
  <<"CreateTargetDirs", "compileArticles", "compileFragments",
    "compileRuns", "compileStylesheets", "linkImageAssets">>

StageIndex(k) == CHOOSE i \in 1..Len(Stages) : Stages[i] = k

ContentStages == {"compileArticles", "compileFragments"}

\* The statement a stage function begins at.
FirstStep(k) ==
  CASE k \in ContentStages -> "ReadDir"
    [] k = "compileRuns" -> "begin"
    [] k = "compileStylesheets" -> "Create"
    [] k = "linkImageAssets" -> "ReadDir"

\* The stage main calls after stage k; "exit" after the last.
StageAfter_SkipRuns(k) ==
  IF k = "compileFragments" THEN "compileStylesheets"
  ELSE IF StageIndex(k) = Len(Stages) THEN "exit" ELSE Stages[StageIndex(k) + 1]

StageAfter(k) ==
  IF StageIndex(k) = Len(Stages) THEN "exit" ELSE Stages[StageIndex(k) + 1]

\* --------------------------------------------------------- idle sub-states

NotCalled == [called |-> FALSE, frontmatter |-> <<>>, content |-> <<>>, err |-> "nil"]
NoRecord == [Title |-> "", PublishedAt |-> "nil", Content |-> <<>>]
NoLocals == <<>>
NoRunsData ==
  [runs |-> <<>>, lastYearXDays |-> <<>>, lastYearYDistances |-> <<>>,
   byYearXYears |-> <<>>, byYearYDistances |-> <<>>]
NoFirstRun == [done |-> FALSE, err |-> "nil", assets |-> <<>>]

IdleMain ==
  /\ pc = "Decode" /\ exitCode = -1 /\ started = <<>> /\ completed = <<>>
  /\ conf = ZeroConf
IdleFrame == step = "idle" /\ err = "nil" /\ infos = <<>> /\ idx = 0
IdleDoc == input = <<>> /\ splitOut = NotCalled /\ record = NoRecord
IdleView ==
  /\ locals = NoLocals /\ rv = "idle" /\ rvErr = "nil"
  /\ target = <<>> /\ creates = {}
IdleRes == handles = {} /\ defers = <<>>
IdleRuns == dbOps = {} /\ runsData = NoRunsData
IdleBundle == bundle = <<>>
IdleLink == linkRuns = 0 /\ firstRun = NoFirstRun
IdleGl == glTitle = "" /\ glLocals = <<>>

\* ------------------------------------------------------------- getLocals

getLocals_DefaultsWin(title, pageLocals) ==
  LET defaults ==
        [BodyClass |-> "",
         GoogleAnalyticsID |-> conf.GoogleAnalyticsID,
         Release |-> Release,
         Title |-> title,
         ViewportWidth |-> "device-width"]
  IN  [k \in DOMAIN defaults \cup DOMAIN pageLocals |->
         IF k \in DOMAIN defaults THEN defaults[k] ELSE pageLocals[k]]

getLocals(title, pageLocals) ==
  LET defaults ==
        [BodyClass |-> "",
         GoogleAnalyticsID |-> conf.GoogleAnalyticsID,
         Release |-> Release,
         Title |-> title,
         ViewportWidth |-> "device-width"]
  IN  [k \in DOMAIN defaults \cup DOMAIN pageLocals |->
         IF k \in DOMAIN pageLocals THEN pageLocals[k] ELSE defaults[k]]

\* -------------------------------------------------------------------- main

\* log.Fatal: the process ends with status 1.
Fatal ==
  /\ pc' = "exit"
  /\ exitCode' = 1

\* envdecode.Decode(&conf) and sorg.InitLog
Decode ==
  /\ pc = "Decode"
  /\ \/ /\ conf' \in Confs
        /\ pc' = "CreateTargetDirs"
        /\ UNCHANGED exitCode
     \/ /\ Fatal
        /\ UNCHANGED conf
  /\ UNCHANGED <<started, completed>>
  /\ UNCHANGED <<frameVars, docVars, viewVars, resVars, runVars, bundle, linkVars, glVars>>

\* err = sorg.CreateTargetDirs()
CreateTargetDirs ==
  /\ pc = "CreateTargetDirs"
  /\ started' = Append(started, "CreateTargetDirs")
  /\ \/ /\ completed' = Append(completed, "CreateTargetDirs")
        /\ pc' = StageAfter("CreateTargetDirs")
        /\ UNCHANGED exitCode
     \/ /\ Fatal
        /\ UNCHANGED completed
  /\ UNCHANGED conf
  /\ UNCHANGED <<frameVars, docVars, viewVars, resVars, runVars, bundle, linkVars, glVars>>

\* main calls the stage function k, whose locals start at their zero values.
CallStage(k) ==
  /\ pc = k
  /\ step = "idle"
  /\ started' = Append(started, k)
  /\ step' = FirstStep(k)
  /\ infos' = <<>>
  /\ idx' = 0
  /\ input' = <<>>
  /\ splitOut' = NotCalled
  /\ record' = NoRecord
  /\ locals' = NoLocals
  /\ runsData' = NoRunsData
  /\ linkRuns' = IF k = "linkImageAssets" THEN linkRuns + 1 ELSE linkRuns
  /\ UNCHANGED <<pc, exitCode, completed, conf, err>>
  /\ UNCHANGED <<rv, rvErr, target, creates, resVars, dbOps, bundle, images, assets,
                 firstRun, glVars>>

\* The stage function k has returned: if err != nil { log.Fatal(err) }
StageReturned(k) ==
  /\ pc = k
  /\ step = "returned"
  /\ IF err # "nil"
     THEN /\ Fatal
          /\ UNCHANGED completed
     ELSE /\ completed' = Append(completed, k)
          /\ pc' = StageAfter(k)
          /\ exitCode' = IF StageAfter(k) = "exit" THEN 0 ELSE exitCode
  /\ step' = "idle"
  /\ UNCHANGED <<started, conf, err, infos, idx>>
  /\ UNCHANGED <<docVars, viewVars, resVars, runVars, bundle, linkVars, glVars>>

\* A stage function reaches a return statement with error e.
ReturnWith(e) ==
  /\ err' = e
  /\ step' = "return"

\* The function returns: its deferred closes run.
Return(k) ==
  /\ pc = k
  /\ step = "return"
  /\ step' = "returned"
  /\ handles' = handles \ {defers[i] : i \in DOMAIN defers}
  /\ defers' = <<>>
  /\ UNCHANGED <<mainVars, err, infos, idx, docVars, viewVars, runVars, bundle,
                 linkVars, glVars>>

\* ---------------------------------------------------------- source files

\* File names as segments, in the order ioutil.ReadDir sorts them.
NamePool == << <<"a">>, <<"a", ".md">>, <<"b", ".md">> >>

RECURSIVE Pick(_, _)
Pick(pool, keep) ==
  IF pool = <<>> THEN <<>>
  ELSE (IF Len(pool) \in keep THEN Pick(SubSeq(pool, 1, Len(pool) - 1), keep) \o <<pool[Len(pool)]>>
        ELSE Pick(SubSeq(pool, 1, Len(pool) - 1), keep))

\* What ioutil.ReadDir can return: sorted listings of at most MaxFiles names.
Listings ==
  { Pick(NamePool, keep) : keep \in { S \in SUBSET (1..Len(NamePool)) : Cardinality(S) <= MaxFiles } }

\* strings.Replace(name, ".md", "", -1)
OutName(name) == SelectSeq(name, LAMBDA seg : seg # ".md")

TargetDirOf(k) ==
  CASE k = "compileArticles" -> "TargetArticlesDir"
    [] k = "compileFragments" -> "TargetFragmentsDir"
    [] OTHER -> "TargetDir"

Rule == <<"-", "-", "-">>

\* A document with a metadata block; T stands for a title entry, P for a
\* published_at entry, ! for text yaml cannot decode.
Doc(meta) == Rule \o <<NL>> \o meta \o <<NL>> \o Rule \o <<NL, "a">>

\* What ioutil.ReadFile can return.
SampleDocs ==
  { Doc(<<"T", "P">>), Doc(<<"T">>), Doc(<<"P">>), Doc(<<>>), Doc(<<"!">>),
    <<"a">>, <<"a", NL>> \o Rule \o <<NL, "T", "P">> }

Holds(s, c) == \E i \in DOMAIN s : s[i] = c

\* yaml.Unmarshal([]byte(frontmatter), &record)
yamlUnmarshal(frontmatter) ==
  [err |-> IF Holds(frontmatter, "!") THEN "yaml" ELSE "nil",
   Title |-> IF Holds(frontmatter, "T") THEN "Hello" ELSE "",
   PublishedAt |-> IF Holds(frontmatter, "P") THEN "time" ELSE "nil"]

\* blackfriday.Markdown(source, renderer, extensions)
renderMarkdown(source) == <<"<p>">> \o source \o <<"</p>">>

\* ----------------------------------- compileArticles and compileFragments

\* The range loop moves to its next element, or ends and the function
\* returns nil.
Iterate(n, len) ==
  /\ idx' = n
  /\ IF n <= len
     THEN step' = "loop" /\ UNCHANGED err
     ELSE ReturnWith("nil")

\* ioutil.ReadDir(sorg.ArticlesDir)
ReadDir(k) ==
  /\ pc = k /\ k \in ContentStages
  /\ step = "ReadDir"
  /\ \/ \E l \in Listings :
          /\ infos' = l
          /\ Iterate(1, Len(l))
     \/ /\ ReturnWith("ReadDir")
        /\ UNCHANGED <<infos, idx>>
  /\ UNCHANGED <<mainVars, docVars, viewVars, resVars, runVars, bundle, linkVars, glVars>>

\* raw, err := ioutil.ReadFile(inPath)
ReadFile(k) ==
  /\ pc = k /\ k \in ContentStages
  /\ step = "loop"
  /\ \/ \E d \in SampleDocs :
          /\ input' = d
          /\ step' = "splitFrontmatter"
          /\ UNCHANGED err
     \/ /\ ReturnWith("ReadFile")
        /\ UNCHANGED input
  /\ UNCHANGED <<mainVars, infos, idx, splitOut, record, viewVars, resVars, runVars, bundle, linkVars, glVars>>

\* frontmatter, content, err := splitFrontmatter(string(raw))
SplitFrontmatter(k) ==
  /\ pc = k /\ k \in ContentStages
  /\ step = "splitFrontmatter"
  /\ LET r == splitFrontmatter(input)
     IN  /\ splitOut' = [called |-> TRUE, frontmatter |-> r.frontmatter,
                         content |-> r.content, err |-> r.err]
         /\ IF r.err # "nil"
            THEN ReturnWith(r.err)
            ELSE step' = "Unmarshal" /\ UNCHANGED err
  /\ UNCHANGED <<mainVars, infos, idx, input, record, viewVars, resVars, runVars, bundle, linkVars, glVars>>

\* err = yaml.Unmarshal([]byte(frontmatter), &article)
Unmarshal(k) ==
  /\ pc = k /\ k \in ContentStages
  /\ step = "Unmarshal"
  /\ LET y == yamlUnmarshal(splitOut.frontmatter)
     IN  IF y.err # "nil"
         THEN ReturnWith(y.err) /\ UNCHANGED record
         ELSE /\ record' = [Title |-> y.Title, PublishedAt |-> y.PublishedAt, Content |-> <<>>]
              /\ step' = "checkTitle"
              /\ UNCHANGED err
  /\ UNCHANGED <<mainVars, infos, idx, input, splitOut, viewVars, resVars, runVars, bundle, linkVars, glVars>>

\* The check of the title left out.
CheckTitle_Skipped(k) ==
  /\ pc = k /\ k \in ContentStages
  /\ step = "checkTitle"
  /\ step' = "checkPublishedAt" /\ UNCHANGED err
  /\ UNCHANGED <<mainVars, infos, idx, docVars, viewVars, resVars, runVars, bundle, linkVars, glVars>>

\* if article.Title == "" { return fmt.Errorf("No title ...") }
CheckTitle(k) ==
  /\ pc = k /\ k \in ContentStages
  /\ step = "checkTitle"
  /\ IF record.Title = ""
     THEN ReturnWith("No title")
     ELSE step' = "checkPublishedAt" /\ UNCHANGED err
  /\ UNCHANGED <<mainVars, infos, idx, docVars, viewVars, resVars, runVars, bundle, linkVars, glVars>>

\* if article.PublishedAt == nil { return fmt.Errorf("No publish date ...") }
CheckPublishedAt(k) ==
  /\ pc = k /\ k \in ContentStages
  /\ step = "checkPublishedAt"
  /\ IF record.PublishedAt = "nil"
     THEN ReturnWith("No publish date")
     ELSE step' = "renderMarkdown" /\ UNCHANGED err
  /\ UNCHANGED <<mainVars, infos, idx, docVars, viewVars, resVars, runVars, bundle, linkVars, glVars>>

\* article.Content = renderMarkdown(content); locals := getLocals(...); the
\* call of renderView.
RenderMarkdown(k) ==
  /\ pc = k /\ k \in ContentStages
  /\ step = "renderMarkdown"
  /\ record' = [record EXCEPT !.Content = renderMarkdown(splitOut.content)]
  /\ locals' = getLocals(record.Title,
                         IF k = "compileArticles"
                         THEN [Article |-> record']
                         ELSE [Fragment |-> record'])
  /\ step' = "renderView"
  /\ rv' = "Load"
  /\ UNCHANGED <<mainVars, err, infos, idx, input, splitOut, rvErr, target, creates,
                 resVars, runVars, bundle, linkVars, glVars>>

\* renderView has returned to compileArticles / compileFragments.
AfterRenderView(k) ==
  /\ pc = k /\ k \in ContentStages
  /\ step = "renderView"
  /\ rv = "returned"
  /\ rv' = "idle"
  /\ rvErr' = "nil"
  /\ IF rvErr # "nil"
     THEN ReturnWith(rvErr) /\ UNCHANGED idx
     ELSE Iterate(idx + 1, Len(infos))
  /\ UNCHANGED <<mainVars, infos, docVars, locals, target, creates, resVars, runVars,
                 bundle, linkVars, glVars>>

\* ------------------------------------------------------------- renderView

\* The target argument of the running call of renderView.
TargetPath ==
  IF pc \in ContentStages
  THEN [dir |-> TargetDirOf(pc), name |-> OutName(infos[idx])]
  ELSE [dir |-> TargetDirOf(pc), name |-> <<"runs">>]

TargetFile == [fn |-> "renderView", res |-> "file"]

InRenderView == step = "renderView" /\ pc \in ContentStages \cup {"compileRuns"}

\* template, err := ace.Load(layout, view, ...)
LoadTemplate ==
  /\ InRenderView
  /\ rv = "Load"
  /\ \/ rv' = "Create" /\ UNCHANGED rvErr
     \/ rv' = "returned" /\ rvErr' = "ace.Load"
  /\ UNCHANGED <<mainVars, frameVars, docVars, locals, target, creates, resVars, runVars,
                 bundle, linkVars, glVars>>

\* file, err := os.Create(target); defer file.Close()
CreateTarget ==
  /\ InRenderView
  /\ rv = "Create"
  /\ \/ /\ rv' = "Execute"
        /\ target' = (TargetPath :> "empty") @@ target
        /\ creates' = creates \cup {<<pc, idx>>}
        /\ handles' = handles \cup {TargetFile}
        /\ UNCHANGED rvErr
     \/ /\ rv' = "returned"
        /\ rvErr' = "os.Create"
        /\ UNCHANGED <<target, creates, handles>>
  /\ UNCHANGED <<mainVars, frameVars, docVars, locals, defers, runVars, bundle, linkVars, glVars>>

\* err = template.Execute(writer, locals) and the return of renderView: the
\* deferred writer.Flush() runs, then the deferred file.Close().
ExecuteTemplate ==
  /\ InRenderView
  /\ rv = "Execute"
  /\ rv' = "returned"
  /\ \/ /\ rvErr' = "nil"
        /\ target' = (TargetPath :> "rendered") @@ target
     \/ /\ rvErr' = "Execute"
        /\ target' = (TargetPath :> "partial") @@ target
  /\ handles' = handles \ {TargetFile}
  /\ UNCHANGED <<mainVars, frameVars, docVars, locals, creates, defers, runVars, bundle,
                 linkVars, glVars>>

\* ------------------------------------------------------------ compileRuns

Database == [fn |-> "compileRuns", res |-> "db"]
Cursor(q) == [fn |-> "compileRuns", res |-> <<"rows1", "rows2", "rows3">>[q]]
QueryStep(q) == <<"Query1", "Query2", "Query3">>[q]
RowsStep(q) == <<"Rows1", "Rows2", "Rows3">>[q]
Queries == 1..3

\* compileRuns opening the database whatever the configuration holds.
RunsBegin_AlwaysOpen ==
  /\ pc = "compileRuns"
  /\ step = "begin"
  /\ runsData' = NoRunsData
  /\ step' = "sql.Open"
  /\ UNCHANGED <<mainVars, err, infos, idx, docVars, viewVars, resVars, dbOps, bundle,
                 linkVars, glVars>>

\* var runs []*Run and the four empty chart slices; the test of
\* conf.BlackSwanDatabaseURL.
RunsBegin ==
  /\ pc = "compileRuns"
  /\ step = "begin"
  /\ runsData' = NoRunsData
  /\ step' = IF conf.BlackSwanDatabaseURL # "" THEN "sql.Open" ELSE "getLocals"
  /\ UNCHANGED <<mainVars, err, infos, idx, docVars, viewVars, resVars, dbOps, bundle,
                 linkVars, glVars>>

\* db, err := sql.Open("postgres", conf.BlackSwanDatabaseURL); a failure is
\* log.Fatal inside compileRuns.
SqlOpen ==
  /\ pc = "compileRuns"
  /\ step = "sql.Open"
  /\ dbOps' = dbOps \cup {"sql.Open"}
  /\ \/ /\ handles' = handles \cup {Database}
        /\ step' = QueryStep(1)
        /\ UNCHANGED <<pc, exitCode>>
     \/ /\ Fatal
        /\ UNCHANGED <<handles, step>>
  /\ UNCHANGED <<started, completed, conf, err, infos, idx, docVars, viewVars, defers,
                 runsData, bundle, linkVars, glVars>>

\* rows, err := db.Query(...); defer rows.Close()
Query(q) ==
  /\ pc = "compileRuns"
  /\ step = QueryStep(q)
  /\ dbOps' = dbOps \cup {QueryStep(q)}
  /\ \/ /\ handles' = handles \cup {Cursor(q)}
        /\ defers' = Append(defers, Cursor(q))
        /\ step' = RowsStep(q)
        /\ UNCHANGED err
     \/ /\ ReturnWith("db.Query")
        /\ UNCHANGED <<handles, defers>>
  /\ UNCHANGED <<mainVars, infos, idx, docVars, viewVars, runsData, bundle, linkVars, glVars>>

\* What one scanned row appends to the slices of query q.
Collected(q) ==
  CASE q = 1 -> [runsData EXCEPT !.runs = Append(@, "run")]
    [] q = 2 -> [runsData EXCEPT !.lastYearXDays = Append(@, "day"),
                                 !.lastYearYDistances = Append(@, "km")]
    [] q = 3 -> [runsData EXCEPT !.byYearXYears = Append(@, "year"),
                                 !.byYearYDistances = Append(@, "km")]

RowsRead(q) ==
  CASE q = 1 -> Len(runsData.runs)
    [] q = 2 -> Len(runsData.lastYearXDays)
    [] q = 3 -> Len(runsData.byYearXYears)

\* for rows.Next() { err = rows.Scan(...) ... }; err = rows.Err().  A cursor
\* whose Next returns false closes itself.
RowsNext(q) ==
  /\ pc = "compileRuns"
  /\ step = RowsStep(q)
  /\ dbOps' = dbOps \cup {RowsStep(q)}
  /\ \/ /\ RowsRead(q) < MaxRows
        /\ runsData' = Collected(q)
        /\ UNCHANGED <<step, err, handles>>
     \/ /\ RowsRead(q) < MaxRows
        /\ ReturnWith("rows.Scan")
        /\ UNCHANGED <<runsData, handles>>
     \/ /\ handles' = handles \ {Cursor(q)}
        /\ step' = IF q < 3 THEN QueryStep(q + 1) ELSE "getLocals"
        /\ UNCHANGED <<runsData, err>>
     \/ /\ handles' = handles \ {Cursor(q)}
        /\ ReturnWith("rows.Err")
        /\ UNCHANGED runsData
  /\ UNCHANGED <<mainVars, infos, idx, docVars, viewVars, defers, bundle, linkVars, glVars>>

\* The page-specific locals of the runs view.
RunsLocals ==
  [Runs |-> runsData.runs,
   LastYearXDays |-> runsData.lastYearXDays,
   LastYearYDistances |-> runsData.lastYearYDistances,
   ByYearXYears |-> runsData.byYearXYears,
   ByYearYDistances |-> runsData.byYearYDistances]

\* locals := getLocals("Runs", ...) and the call of renderView
RunsGetLocals ==
  /\ pc = "compileRuns"
  /\ step = "getLocals"
  /\ locals' = getLocals("Runs", RunsLocals)
  /\ step' = "renderView"
  /\ rv' = "Load"
  /\ UNCHANGED <<mainVars, err, infos, idx, docVars, rvErr, target, creates, resVars,
                 runVars, bundle, linkVars, glVars>>

\* renderView has returned to compileRuns: return err, or return nil.
RunsAfterRenderView ==
  /\ pc = "compileRuns"
  /\ step = "renderView"
  /\ rv = "returned"
  /\ rv' = "idle"
  /\ rvErr' = "nil"
  /\ ReturnWith(rvErr)
  /\ UNCHANGED <<mainVars, infos, idx, docVars, locals, target, creates, resVars, runVars,
                 bundle, linkVars, glVars>>

\* ----------------------------------------------------- compileStylesheets

\* var stylesheets, each name as <<stem, extension>>
stylesheets ==
  << <<"_reset", ".sass">>, <<"main", ".sass">>, <<"about", ".sass">>,
     <<"fragments", ".sass">>, <<"index", ".sass">>, <<"photos", ".sass">>,
     <<"quotes", ".sass">>, <<"reading", ".sass">>, <<"runs", ".sass">>,
     <<"signature", ".sass">>, <<"solarized-light", ".css">>,
     <<"tenets", ".sass">>, <<"twitter", ".sass">> >>

FileName(s) == s[1] \o s[2]

\* strings.HasSuffix(stylesheet, suffix)
HasSuffix(s, suffix) == s[Len(s)] = suffix

OutFile == [fn |-> "compileStylesheets", res |-> "app.css"]
InFile(s) == [fn |-> "compileStylesheets", res |-> FileName(s)]

Banner_Unnamed(s) == "/* stylesheet */\n\n"

\* "/* " + stylesheet + " */\n\n"
Banner(s) == "/* " \o FileName(s) \o " */\n\n"

\* What gcss.Compile and io.Copy write for the input file s.
Compiled(s) == "gcss(" \o FileName(s) \o ")"
Copied(s) == "copy(" \o FileName(s) \o ")"
CopiedInPart(s) == "copy(" \o FileName(s) \o ")[cut]"

\* outFile, err := os.Create(... + "app.css"); defer outFile.Close()
CreateBundle ==
  /\ pc = "compileStylesheets"
  /\ step = "Create"
  /\ \/ /\ bundle' = <<>>
        /\ handles' = handles \cup {OutFile}
        /\ defers' = <<OutFile>>
        /\ Iterate(1, Len(stylesheets))
     \/ /\ ReturnWith("os.Create")
        /\ UNCHANGED <<bundle, handles, defers, idx>>
  /\ UNCHANGED <<mainVars, infos, docVars, viewVars, runVars, linkVars, glVars>>

\* inFile, err := os.Open(inPath)
OpenStylesheet ==
  /\ pc = "compileStylesheets"
  /\ step = "loop"
  /\ \/ /\ handles' = handles \cup {InFile(stylesheets[idx])}
        /\ step' = "banner"
        /\ UNCHANGED err
     \/ /\ ReturnWith("os.Open")
        /\ UNCHANGED handles
  /\ UNCHANGED <<mainVars, infos, idx, docVars, viewVars, defers, runVars, bundle,
                 linkVars, glVars>>

\* outFile.WriteString("/* " + stylesheet + " */\n\n")
WriteBanner ==
  /\ pc = "compileStylesheets"
  /\ step = "banner"
  /\ bundle' = Append(bundle, Banner(stylesheets[idx]))
  /\ step' = "content"
  /\ UNCHANGED <<mainVars, err, infos, idx, docVars, viewVars, resVars, runVars,
                 linkVars, glVars>>

\* gcss.Compile(outFile, inFile) for a .sass name, which writes nothing when
\* it fails; io.Copy(outFile, inFile) otherwise, which may fail part way.
WriteContent ==
  /\ pc = "compileStylesheets"
  /\ step = "content"
  /\ IF HasSuffix(stylesheets[idx], ".sass")
     THEN \/ /\ bundle' = Append(bundle, Compiled(stylesheets[idx]))
             /\ step' = "trailer"
             /\ UNCHANGED err
          \/ /\ ReturnWith("gcss.Compile")
             /\ UNCHANGED bundle
     ELSE \/ /\ bundle' = Append(bundle, Copied(stylesheets[idx]))
             /\ step' = "trailer"
             /\ UNCHANGED err
          \/ /\ ReturnWith("io.Copy")
             /\ bundle' \in {bundle, Append(bundle, CopiedInPart(stylesheets[idx]))}
  /\ UNCHANGED <<mainVars, infos, idx, docVars, viewVars, resVars, runVars, linkVars, glVars>>

\* outFile.WriteString("\n\n") and the next round of the loop
WriteTrailer ==
  /\ pc = "compileStylesheets"
  /\ step = "trailer"
  /\ bundle' = Append(bundle, "\n\n")
  /\ Iterate(idx + 1, Len(stylesheets))
  /\ UNCHANGED <<mainVars, infos, docVars, viewVars, resVars, runVars, linkVars, glVars>>

\* -------------------------------------------------------- linkImageAssets

ImagePool == <<"a.jpg", "b.jpg", "c.jpg", "d.jpg">>
ImageNames == { ImagePool[i] : i \in 1..MaxImages }

\* The listing ioutil.ReadDir returns for a directory holding the names S.
SortedImages(S) == Pick(ImagePool, { i \in 1..Len(ImagePool) : ImagePool[i] \in S })

\* filepath.Abs(dir + name) of a relative path
Abs(dir, name) == <<"/cwd", dir, name>>

Absent == [kind |-> "absent", to |-> <<>>]
RegularFile == [kind |-> "file", to |-> <<>>]
Directory == [kind |-> "dir", to |-> <<>>]
Link(to) == [kind |-> "link", to |-> to]

\* What a path of the destination directory can hold before a build.
PriorEntries ==
  {Absent, RegularFile, Directory, Link(<<"/elsewhere">>)}
    \cup { Link(Abs("ImagesDir", n)) : n \in ImageNames }

FreshAssets == [n \in ImageNames |-> Absent]

\* assets, err := ioutil.ReadDir(sorg.ImagesDir)
ReadImagesDir ==
  /\ pc = "linkImageAssets"
  /\ step = "ReadDir"
  /\ \/ /\ infos' = SortedImages(images)
        /\ Iterate(1, Len(SortedImages(images)))
     \/ /\ ReturnWith("ReadDir")
        /\ UNCHANGED <<infos, idx>>
  /\ UNCHANGED <<mainVars, docVars, viewVars, resVars, runVars, bundle, linkVars, glVars>>

\* source, err := filepath.Abs(...); dest, err := filepath.Abs(...)
AbsPaths ==
  /\ pc = "linkImageAssets"
  /\ step = "loop"
  /\ \/ step' = "RemoveAll" /\ UNCHANGED err
     \/ ReturnWith("filepath.Abs")
  /\ UNCHANGED <<mainVars, infos, idx, docVars, viewVars, resVars, runVars, bundle,
                 linkVars, glVars>>

\* err = os.RemoveAll(dest)
RemoveAll ==
  /\ pc = "linkImageAssets"
  /\ step = "RemoveAll"
  /\ \/ /\ assets' = [assets EXCEPT ![infos[idx]] = Absent]
        /\ step' = "Symlink"
        /\ UNCHANGED err
     \/ /\ ReturnWith("os.RemoveAll")
        /\ UNCHANGED assets
  /\ UNCHANGED <<mainVars, infos, idx, docVars, viewVars, resVars, runVars, bundle,
                 images, linkRuns, firstRun, glVars>>

LinkSource_Relative(name) == <<"ImagesDir", name>>

\* The source argument of os.Symlink: the absolute path of the image.
LinkSource(name) == Abs("ImagesDir", name)

\* err = os.Symlink(source, dest), which fails when dest exists
Symlink ==
  /\ pc = "linkImageAssets"
  /\ step = "Symlink"
  /\ IF assets[infos[idx]].kind # "absent"
     THEN ReturnWith("os.Symlink") /\ UNCHANGED <<assets, idx>>
     ELSE \/ /\ assets' = [assets EXCEPT ![infos[idx]] = Link(LinkSource(infos[idx]))]
             /\ Iterate(idx + 1, Len(infos))
          \/ /\ ReturnWith("os.Symlink")
             /\ UNCHANGED <<assets, idx>>
  /\ UNCHANGED <<mainVars, infos, docVars, viewVars, resVars, runVars, bundle,
                 images, linkRuns, firstRun, glVars>>

\* ------------------------------------------------------ the build pipeline

Init ==
  /\ IdleMain /\ IdleFrame /\ IdleDoc /\ IdleView /\ IdleRes /\ IdleRuns
  /\ IdleBundle /\ IdleLink /\ IdleGl
  /\ images \in SUBSET ImageNames
  /\ assets = FreshAssets

CalledStages == { Stages[i] : i \in 2..Len(Stages) }

Next ==
  \/ Decode
  \/ CreateTargetDirs
  \/ \E k \in CalledStages : CallStage(k)
  \/ \E k \in CalledStages : Return(k)
  \/ \E k \in CalledStages : StageReturned(k)
  \/ \E k \in ContentStages : ReadDir(k)
  \/ \E k \in ContentStages : ReadFile(k)
  \/ \E k \in ContentStages : SplitFrontmatter(k)
  \/ \E k \in ContentStages : Unmarshal(k)
  \/ \E k \in ContentStages : CheckTitle(k)
  \/ \E k \in ContentStages : CheckPublishedAt(k)
  \/ \E k \in ContentStages : RenderMarkdown(k)
  \/ \E k \in ContentStages : AfterRenderView(k)
  \/ LoadTemplate
  \/ CreateTarget
  \/ ExecuteTemplate
  \/ RunsBegin
  \/ SqlOpen
  \/ \E q \in Queries : Query(q)
  \/ \E q \in Queries : RowsNext(q)
  \/ RunsGetLocals
  \/ RunsAfterRenderView
  \/ CreateBundle
  \/ OpenStylesheet
  \/ WriteBanner
  \/ WriteContent
  \/ WriteTrailer
  \/ ReadImagesDir
  \/ AbsPaths
  \/ RemoveAll
  \/ Symlink

Spec == Init /\ [][Next]_vars

\* ------------------------------------------ splitFrontmatter on its own

InitSplit ==
  /\ IdleMain /\ IdleFrame /\ IdleView /\ IdleRes /\ IdleRuns
  /\ IdleBundle /\ IdleLink /\ IdleGl
  /\ images = {} /\ assets = FreshAssets
  /\ record = NoRecord
  /\ splitOut = NotCalled
  /\ input \in Texts(MaxTokens)

CallSplitFrontmatter ==
  /\ pc = "Decode"
  /\ ~splitOut.called
  /\ LET r == splitFrontmatter(input)
     IN  splitOut' = [called |-> TRUE, frontmatter |-> r.frontmatter,
                      content |-> r.content, err |-> r.err]
  /\ UNCHANGED <<mainVars, frameVars, input, record, viewVars, resVars, runVars, bundle,
                 linkVars, glVars>>

NextSplit == CallSplitFrontmatter

SpecSplit == InitSplit /\ [][NextSplit]_vars

\* ------------------------------------------------- getLocals on its own

BaselineKeys == {"BodyClass", "GoogleAnalyticsID", "Release", "Title", "ViewportWidth"}
PageKeys == {"Article", "Runs"}
PageValues == {"page-1", "page-2"}
Titles == {"", "Runs"}

\* The page-specific mappings: any keys, baseline keys among them.
PageMappings == UNION { [S -> PageValues] : S \in SUBSET (BaselineKeys \cup PageKeys) }

InitLocals ==
  /\ pc = "Decode" /\ exitCode = -1 /\ started = <<>> /\ completed = <<>>
  /\ conf \in Confs
  /\ IdleFrame /\ IdleDoc /\ IdleView /\ IdleRes /\ IdleRuns /\ IdleBundle /\ IdleLink
  /\ images = {} /\ assets = FreshAssets
  /\ glTitle \in Titles
  /\ glLocals \in PageMappings

CallGetLocals ==
  /\ pc = "Decode"
  /\ rv = "idle"
  /\ locals' = getLocals(glTitle, glLocals)
  /\ rv' = "returned"
  /\ UNCHANGED <<mainVars, frameVars, docVars, rvErr, target, creates, resVars, runVars,
                 bundle, linkVars, glVars>>

NextLocals == CallGetLocals

SpecLocals == InitLocals /\ [][NextLocals]_vars

\* ------------------------------------------- linkImageAssets run twice

InitLink ==
  /\ pc = "linkImageAssets" /\ exitCode = -1 /\ started = <<>> /\ completed = <<>>
  /\ conf = ZeroConf
  /\ IdleFrame /\ IdleDoc /\ IdleView /\ IdleRes /\ IdleRuns /\ IdleBundle /\ IdleLink
  /\ IdleGl
  /\ images \in SUBSET ImageNames
  /\ assets \in [ImageNames -> PriorEntries]

\* linkImageAssets is called, and called once more after it has returned.
CallLinkImageAssets ==
  /\ pc = "linkImageAssets"
  /\ \/ /\ step = "idle" /\ linkRuns = 0
        /\ UNCHANGED <<firstRun, err>>
     \/ /\ step = "returned" /\ linkRuns = 1
        /\ firstRun' = [done |-> TRUE, err |-> err, assets |-> assets]
        /\ err' = "nil"
  /\ step' = "ReadDir"
  /\ linkRuns' = linkRuns + 1
  /\ UNCHANGED <<mainVars, infos, idx, docVars, viewVars, resVars, runVars, bundle,
                 images, assets, glVars>>

NextLink ==
  \/ CallLinkImageAssets
  \/ Return("linkImageAssets")
  \/ ReadImagesDir
  \/ AbsPaths
  \/ RemoveAll
  \/ Symlink

SpecLink == InitLink /\ [][NextLink]_vars

\* ============================================================= properties

\* ------------------------------------------------------------ C1: main

Failed == err # "nil"

\* C1: the stages start in the fixed order of main, each only after every
\* earlier stage has returned without failure; after a failure no further
\* stage starts and the exit status is not zero; the exit status is zero
\* only when all six stages have completed.
C1_StageOrder ==
  /\ Len(started) <= Len(Stages)
  /\ \A i \in 1..Len(started) : started[i] = Stages[i]
  /\ Len(completed) <= Len(started)
  /\ \A i \in 1..Len(completed) : completed[i] = Stages[i]
  /\ Len(started) <= Len(completed) + 1
  /\ exitCode \in {-1, 0, 1}
  /\ (exitCode # -1) <=> (pc = "exit")
  /\ exitCode = 0 => completed = Stages
  /\ Failed => exitCode # 0 /\ Len(completed) < Len(started)
  /\ (pc = "exit" /\ completed # Stages) => exitCode = 1

\* A run where compileRuns failed: three stages completed, the fourth
\* started, none after it, exit status 1.
C1_Witness ==
  /\ pc = "exit"
  /\ exitCode = 1
  /\ Failed
  /\ started = SubSeq(Stages, 1, 4)
  /\ completed = SubSeq(Stages, 1, 3)

\* ---------------------------------------------------- C2-C4: the splitter

Blank(c) == c \in { " ", "\n", "\t", "\r" }

\* The 1-based positions of input where a line starts with "---".
RuleStarts ==
  { p \in 1..Len(input) :
      /\ p + 2 <= Len(input)
      /\ (p = 1 \/ input[p - 1] = "\n")
      /\ input[p] = "-" /\ input[p + 1] = "-" /\ input[p + 2] = "-" }

\* The positions where a line consists of exactly "---".
RuleLines ==
  { p \in RuleStarts : p + 3 > Len(input) \/ input[p + 3] = "\n" }

Least(S) == CHOOSE p \in S : \A q \in S : p <= q

\* t is s without its leading and trailing blanks.
IsTrimOf(t, s) ==
  \E i \in 1..(Len(s) + 1) : \E j \in 0..Len(s) :
    /\ t = SubSeq(s, i, j)
    /\ \A k \in 1..(i - 1) : Blank(s[k])
    /\ \A k \in (j + 1)..Len(s) : Blank(s[k])
    /\ t # <<>> => ~Blank(t[1]) /\ ~Blank(t[Len(t)])

FromPos(p) == SubSeq(input, p, Len(input))

\* C2, as amended: splitFrontmatter returns the bad-frontmatter error exactly
\* when some line starts with "---" and the text before the first such line
\* is not the empty string, blanks included; every other input yields a
\* (metadata, body) pair without error.
C2_ErrorIffLeadingText ==
  splitOut.called =>
    /\ splitOut.err \in {"nil", "errBadFrontmatter"}
    /\ (splitOut.err = "errBadFrontmatter") <=> (RuleStarts # {} /\ 1 \notin RuleStarts)

\* C2, as stated: the error exactly when there is a separator and the text
\* before the first one holds a non-whitespace character.
C2_AsStated ==
  splitOut.called =>
    ((splitOut.err = "errBadFrontmatter") <=>
       (RuleStarts # {} /\ \E k \in 1..(Least(RuleStarts) - 1) : ~Blank(input[k])))

\* An input whose text before the first separator is only blanks, rejected.
C2_Witness ==
  /\ splitOut.called
  /\ splitOut.err = "errBadFrontmatter"
  /\ RuleStarts # {}
  /\ Least(RuleStarts) > 1
  /\ \A k \in 1..(Least(RuleStarts) - 1) : Blank(input[k])

NoSplitBody ==
  /\ splitOut.err = "nil"
  /\ splitOut.frontmatter = <<>>
  /\ IsTrimOf(splitOut.content, input)

\* C3, as amended: for every input with no line that starts with "---",
\* splitFrontmatter returns without error an empty metadata block and the
\* whole input, trimmed, as body.
C3_NoSeparator ==
  (splitOut.called /\ RuleStarts = {}) => NoSplitBody

\* C3, as stated: the same for every input with no line that is exactly
\* "---".
C3_AsStated ==
  (splitOut.called /\ RuleLines = {}) => NoSplitBody

\* An input with three dashes inside a line and blanks around its text.
C3_Witness ==
  /\ splitOut.called
  /\ RuleStarts = {}
  /\ \E p \in 1..Len(input) :
       p + 2 <= Len(input) /\ input[p] = "-" /\ input[p + 1] = "-" /\ input[p + 2] = "-"
  /\ Blank(input[1]) /\ Blank(input[Len(input)])
  /\ splitOut.content # <<>>

Invalid == record.Title = "" \/ record.PublishedAt = "nil"
MissingField == err \in {"No title", "No publish date"}
FailedStage == started[Len(started)]

\* C5: a record with an empty title or no published timestamp never reaches
\* the rendering of its body or of its view, the stage returns the error,
\* no os.Create happens for that record or for a later file of the stage,
\* and no later stage starts; a stage that returns nil has written a view
\* for every file of its listing.
C5_RequiredFields ==
  /\ (pc \in ContentStages /\ step = "checkPublishedAt") => record.Title # ""
  /\ (pc \in ContentStages /\ step \in {"renderMarkdown", "renderView"}) => ~Invalid
  /\ (pc \in ContentStages /\ step \in {"return", "returned"} /\ err = "nil") =>
       \A i \in 1..Len(infos) : <<pc, i>> \in creates
  /\ MissingField =>
       /\ Invalid
       /\ FailedStage \in ContentStages
       /\ pc \in {FailedStage, "exit"}
       /\ step \in {"return", "returned", "idle"}
       /\ exitCode # 0
       /\ \A c \in creates : c[1] = FailedStage => c[2] < idx
       /\ rv = "idle"

\* The second article lacks its title: the first has its view, the second
\* has none, and the process has ended with status 1.
C5_Witness ==
  /\ err = "No title"
  /\ pc = "exit"
  /\ exitCode = 1
  /\ idx = 2
  /\ creates = {<<"compileArticles", 1>>}
  /\ started = SubSeq(Stages, 1, 2)

\* ------------------------------------------------------- C6: resources

\* The function fn is running (called and not yet returned).
Running(fn) ==
  IF fn = "renderView"
  THEN rv \in {"Load", "Create", "Execute"}
  ELSE pc = fn /\ step \notin {"idle", "returned"}

\* C6: a handle is open only while the function that opened it runs.
C6_ResourcesReleased ==
  \A h \in handles : Running(h.fn)

\* ------------------------------------------- C7: no connection string

RunsPath == [dir |-> "TargetDir", name |-> <<"runs">>]
NoDatabase == conf.BlackSwanDatabaseURL = ""

\* C7: with no connection string compileRuns performs no database
\* operation, hands renderView an empty activity list and four empty chart
\* slices, fails only when renderView fails, and has rendered the runs view
\* when it returns nil.
C7_NoConnectionString ==
  NoDatabase =>
    /\ dbOps = {}
    /\ (pc = "compileRuns" /\ step = "renderView") =>
         /\ {"Runs", "LastYearXDays", "LastYearYDistances", "ByYearXYears",
             "ByYearYDistances"} \subseteq DOMAIN locals
         /\ Len(locals["Runs"]) = 0
         /\ Len(locals["LastYearXDays"]) = 0
         /\ Len(locals["LastYearYDistances"]) = 0
         /\ Len(locals["ByYearXYears"]) = 0
         /\ Len(locals["ByYearYDistances"]) = 0
    /\ (pc = "compileRuns" /\ step \in {"return", "returned"}) =>
         /\ err \in {"nil", "ace.Load", "os.Create", "Execute"}
         /\ err = "nil" => (RunsPath \in DOMAIN target /\ target[RunsPath] = "rendered")

\* compileRuns has returned nil without a connection string.
C7_Witness ==
  /\ NoDatabase
  /\ pc = "compileRuns"
  /\ step = "returned"
  /\ err = "nil"
  /\ RunsPath \in DOMAIN target

\* ---------------------------------------------------------- C8: bundle

SheetNames ==
  <<"_reset.sass", "main.sass", "about.sass", "fragments.sass", "index.sass",
    "photos.sass", "quotes.sass", "reading.sass", "runs.sass", "signature.sass",
    "solarized-light.css", "tenets.sass", "twitter.sass">>

Verbatim == {"solarized-light.css"}

SectionBanner(i) == "/* " \o SheetNames[i] \o " */\n\n"
SectionContent(i) ==
  IF SheetNames[i] \in Verbatim
  THEN "copy(" \o SheetNames[i] \o ")"
  ELSE "gcss(" \o SheetNames[i] \o ")"

\* The j-th chunk of the bundle is the chunk of that place in the sections
\* of the list; a copy cut short by its failure is the last chunk.
ChunkInPlace(j) ==
  LET i == ((j - 1) \div 3) + 1
      r == (j - 1) % 3
  IN  CASE r = 0 -> bundle[j] = SectionBanner(i)
        [] r = 1 -> \/ bundle[j] = SectionContent(i)
                    \/ /\ j = Len(bundle)
                       /\ err = "io.Copy"
                       /\ bundle[j] = SectionContent(i) \o "[cut]"
        [] r = 2 -> bundle[j] = "\n\n"

LinkedTo(n) == [kind |-> "link", to |-> <<"/cwd", "ImagesDir", n>>]
RunEnded == pc = "linkImageAssets" /\ step = "returned"

\* C9: after a run of linkImageAssets that returns nil every source entry
\* has at its destination path a link to the absolute source path, whatever
\* was there before, and a second such run leaves the destination directory
\* as the first left it.
C9_Idempotent ==
  /\ (RunEnded /\ err = "nil") =>
       \A n \in images : assets[n] = LinkedTo(n)
  /\ (RunEnded /\ linkRuns = 2 /\ err = "nil" /\ firstRun.err = "nil") =>
       assets = firstRun.assets

\* Two runs over a source entry, beside a directory the source does not name.
C9_Witness ==
  /\ RunEnded
  /\ linkRuns = 2
  /\ err = "nil"
  /\ firstRun.err = "nil"
  /\ images # {}
  /\ \E m \in ImageNames \ images : assets[m].kind = "dir"

\* ---------------------------------------------------------- C10: locals

BaselineValue(k) ==
  CASE k = "BodyClass" -> ""
    [] k = "GoogleAnalyticsID" -> conf.GoogleAnalyticsID
    [] k = "Release" -> "sorg.Release"
    [] k = "Title" -> glTitle
    [] k = "ViewportWidth" -> "device-width"

\* C10: the mapping getLocals returns holds the five baseline keys and every
\* page-specific key; a page-specific key carries the page's value, and a
\* baseline key the page does not set carries its baseline value.
C10_LocalsMerge ==
  rv = "returned" =>
    /\ DOMAIN locals = BaselineKeys \cup DOMAIN glLocals
    /\ \A k \in DOMAIN glLocals : locals[k] = glLocals[k]
    /\ \A k \in BaselineKeys \ DOMAIN glLocals : locals[k] = BaselineValue(k)

\* A page mapping that sets Title and Article and leaves BodyClass alone.
C10_Witness ==
  /\ rv = "returned"
  /\ {"Title", "Article"} \subseteq DOMAIN glLocals
  /\ "BodyClass" \notin DOMAIN glLocals
  /\ locals["Title"] = glLocals["Title"]
  /\ glTitle # glLocals["Title"]

====
